---- MODULE Spec2Model ----
(***************************************************************************)
(* Model of the picouncil-infra Pulumi programs in src/index.ts.  The file *)
(* holds two programs: the EC2 + Cloudflare Tunnel variant (lines 1-425)   *)
(* and the Fargate + ALB variant (lines 427-1097).  Each is a straight     *)
(* line script: it reads config, resolves image tags from git, declares    *)
(* resources whose inputs are outputs of earlier resources, and registers  *)
(* callbacks (apply / then) the engine runs once their inputs resolved.    *)
(*                                                                         *)
(* Text is modelled as a sequence of string tokens; a git hash and the raw *)
(* output of git are sequences of one-character tokens so that trim() is   *)
(* computed, not assumed.                                                  *)
(***************************************************************************)
EXTENDS Integers, Sequences, FiniteSets, TLC

VARIABLES variant, errorOutputString, pc, status, supplied, missing, cfg, env,
          gitLog, declared, resolved, val

vars == <<variant, errorOutputString, pc, status, supplied, missing, cfg, env,
          gitLog, declared, resolved, val>>

(* ------------------------------ bounds --------------------------------- *)
\* longest run of whitespace around the hash in git's raw output
MaxPad == 1
\* number of distinct commit hashes a lookup may report
NumHashes == 2
\* number of distinct values a secret config key may hold
NumSecretValues == 1
\* number of distinct tunnel tokens the engine may return
NumTokens == 2

(* ------------------------------ text ----------------------------------- *)
Range(s) == {s[i] : i \in DOMAIN s}

Whitespace == {" ", "\n"}

\* all texts over alphabet A of length at most n
RECURSIVE TextsUpTo(_, _)
TextsUpTo(A, n) ==
  IF n = 0 THEN {<<>>}
  ELSE LET shorter == TextsUpTo(A, n - 1)
       IN  shorter \cup {Append(t, a) : t \in shorter, a \in A}

RECURSIVE TrimStart(_)
TrimStart(s) ==
  IF s # <<>> /\ Head(s) \in Whitespace THEN TrimStart(Tail(s)) ELSE s

RECURSIVE TrimEnd(_)
TrimEnd(s) ==
  IF s # <<>> /\ s[Len(s)] \in Whitespace
  THEN TrimEnd(SubSeq(s, 1, Len(s) - 1)) ELSE s

\* a trim() that forgets to strip anything
Trim_Identity(s) == s

\* String.prototype.trim
Trim(s) == TrimEnd(TrimStart(s))

\* the literal 'latest'
Latest == <<"l", "a", "t", "e", "s", "t">>

HexDigits == <<"0", "1", "2", "3", "4", "5", "6", "7",
               "8", "9", "a", "b", "c", "d", "e", "f">>

\* the i-th short commit hash git may print (seven hex digits)
Hash(i) == [j \in 1..7 |-> HexDigits[((i * 5 + j * 3) % 16) + 1]]

Hashes == {Hash(i) : i \in 1..NumHashes}

Pads == TextsUpTo(Whitespace, MaxPad)

\* outcome of one execSync('git ... rev-parse --short HEAD'): it throws, or
\* it returns the hash surrounded by whitespace (git ends the line)
LookupOutcomes ==
  {[ok |-> FALSE, hash |-> <<>>, out |-> <<>>]} \cup
  {[ok |-> TRUE, hash |-> h, out |-> lead \o h \o trail] :
      h \in Hashes, lead \in Pads, trail \in Pads}

(* ---------------------- Output<T> stringification ---------------------- *)
\* what Output<T>.toString() / toJSON() returns when it does not throw
OutputToStringMsg == "Calling [toString] on an [Output<T>] is not supported."

\* Buffer.from(text).toString('base64'), token by token
Base64(text) == [i \in DOMAIN text |-> "base64(" \o text[i] \o ")"]

(* --------------------------- program constants ------------------------- *)
AWS_REGION == "ap-northeast-2"
DOMAIN_NAME == "picouncil.com"
\* ECR_REGISTRY of the EC2 program: a plain string literal
\* the host suffix of an ECR registry; the account id precedes it
EcrSuffix == ".dkr.ecr." \o AWS_REGION \o ".amazonaws.com"
\* ECR_REGISTRY of the EC2 program: a plain string literal
ECR_REGISTRY_ec2 == <<"066047414165", EcrSuffix>>

(* ----------------------------- statements ------------------------------ *)
\* One record per statement of a program, in textual order.
\*   op      what the statement does
\*   name    the logical name of the resource, or the variable it assigns
\*   type    the resource type ("" when the statement declares none)
\*   refs    the resources and value cells whose outputs it mentions
\*   waits   the outputs the engine resolves before the node itself resolves
\*   secrets the secret config keys whose value is an input property
\*   key     the config key or checkout path the statement reads
St(op, name, type, refs, waits, secrets, key) ==
  [op |-> op, name |-> name, type |-> type, refs |-> refs, waits |-> waits,
   secrets |-> secrets, key |-> key]

Res(name, type, refs, secrets) == St("resource", name, type, refs, refs, secrets, "")
Invoke(name, refs) == St("invoke", name, "", refs, refs, {}, "")
Apply(name, refs, waits) == St("apply", name, "", refs, waits, {}, "")
Require(name, key) == St("require", name, "", {}, {}, {}, key)
RequireSecret(name, key) == St("requireSecret", name, "", {}, {}, {}, key)
Get(name, key) == St("get", name, "", {}, {}, {}, key)
Git(name, path) == St("git", name, "", {}, {}, {}, path)
Image(name, key) == St("image", name, "", {}, {}, {}, key)
Registry(refs) == St("registry", "ECR_REGISTRY", "", refs, {}, {}, "")
Export(refs) == St("export", "exports", "", refs, {}, {}, "")

\* the EC2 + Cloudflare Tunnel program, src/index.ts lines 1-425
Program_ec2 == <<
  Registry({}),
  Require("cloudflareAccountId", "cloudflareAccountId"),
  Require("cloudflareZoneId", "cloudflareZoneId"),
  Git("serverCommit", "../picouncil-server"),
  Image("serverImage", "serverImage"),
  Res("picouncil-images", "cloudflare:R2Bucket", {}, {}),
  Res("picouncil-images-public", "cloudflare:R2ManagedDomain", {"picouncil-images"}, {}),
  Res("picouncil-images-domain", "cloudflare:R2CustomDomain", {"picouncil-images"}, {}),
  Res("picouncil-root", "cloudflare:DnsRecord", {}, {}),
  Res("picouncil-www", "cloudflare:DnsRecord", {}, {}),
  Res("picouncil-admin-dns", "cloudflare:DnsRecord", {}, {}),
  RequireSecret("tunnelSecret", "cloudflareTunnelSecret"),
  Res("picouncil-api-tunnel", "cloudflare:ZeroTrustTunnelCloudflared", {},
      {"cloudflareTunnelSecret"}),
  Res("picouncil-api-tunnel-config", "cloudflare:ZeroTrustTunnelCloudflaredConfig",
      {"picouncil-api-tunnel"}, {}),
  Apply("picouncil-api-dns.content", {"picouncil-api-tunnel"}, {"picouncil-api-tunnel"}),
  Res("picouncil-api-dns", "cloudflare:DnsRecord", {"picouncil-api-dns.content"}, {}),
  Invoke("tunnelToken", {"picouncil-api-tunnel"}),
  Res("picouncil-vpc", "aws:ec2:Vpc", {}, {}),
  Res("picouncil-subnet", "aws:ec2:Subnet", {"picouncil-vpc"}, {}),
  Res("picouncil-igw", "aws:ec2:InternetGateway", {"picouncil-vpc"}, {}),
  Res("picouncil-rt", "aws:ec2:RouteTable", {"picouncil-vpc", "picouncil-igw"}, {}),
  Res("picouncil-rt-assoc", "aws:ec2:RouteTableAssociation",
      {"picouncil-subnet", "picouncil-rt"}, {}),
  Res("picouncil-sg", "aws:ec2:SecurityGroup", {"picouncil-vpc"}, {}),
  Res("picouncil-ecs-instance-role", "aws:iam:Role", {}, {}),
  Res("picouncil-ecs-instance-ecs", "aws:iam:RolePolicyAttachment",
      {"picouncil-ecs-instance-role"}, {}),
  Res("picouncil-ecs-instance-ssm", "aws:iam:RolePolicyAttachment",
      {"picouncil-ecs-instance-role"}, {}),
  Res("picouncil-ecs-instance-profile", "aws:iam:InstanceProfile",
      {"picouncil-ecs-instance-role"}, {}),
  Res("picouncil-task-execution-role", "aws:iam:Role", {}, {}),
  Res("picouncil-task-execution-ecs", "aws:iam:RolePolicyAttachment",
      {"picouncil-task-execution-role"}, {}),
  Res("picouncil-task-execution-ecr", "aws:iam:RolePolicyAttachment",
      {"picouncil-task-execution-role"}, {}),
  Invoke("awsAccountId", {}),
  Apply("picouncil-task-execution-ssm.policy", {"awsAccountId"}, {"awsAccountId"}),
  Res("picouncil-task-execution-ssm", "aws:iam:RolePolicy",
      {"picouncil-task-execution-role", "picouncil-task-execution-ssm.policy"}, {}),
  RequireSecret("databaseUrl", "database-url"),
  RequireSecret("jwtSecret", "jwt-secret"),
  Res("picouncil-DATABASE_URL", "aws:ssm:Parameter", {}, {"database-url"}),
  Res("picouncil-JWT_SECRET", "aws:ssm:Parameter", {}, {"jwt-secret"}),
  Res("picouncil-server", "aws:ecr:Repository", {}, {}),
  Res("picouncil-server-lifecycle", "aws:ecr:LifecyclePolicy", {"picouncil-server"}, {}),
  Res("picouncil-logs", "aws:cloudwatch:LogGroup", {}, {}),
  Res("picouncil-cluster", "aws:ecs:Cluster", {}, {}),
  Apply("picouncil-server-task.containerDefinitions", {"picouncil-logs"}, {"picouncil-logs"}),
  Res("picouncil-server-task", "aws:ecs:TaskDefinition",
      {"picouncil-task-execution-role", "picouncil-server-task.containerDefinitions"}, {}),
  Get("instanceType", "instanceType"),
  Invoke("ecsAmi", {}),
  Apply("userData", {"picouncil-cluster", "tunnelToken"}, {"picouncil-cluster", "tunnelToken"}),
  Res("picouncil-ecs-instance", "aws:ec2:Instance",
      {"ecsAmi", "picouncil-ecs-instance-profile", "picouncil-subnet", "picouncil-sg",
       "userData"}, {}),
  Res("picouncil-server-service", "aws:ecs:Service",
      {"picouncil-cluster", "picouncil-server-task"}, {}),
  Export({"picouncil-vpc", "picouncil-server", "picouncil-cluster",
          "picouncil-ecs-instance", "picouncil-images"})
>>

\* a plausible slip: the ECS group is declared before the ALB group it admits
SecurityGroups_fargate_Reordered == <<
  Res("picouncil-ecs-sg", "aws:ec2:SecurityGroup", {"picouncil-vpc", "picouncil-alb-sg"}, {}),
  Res("picouncil-alb-sg", "aws:ec2:SecurityGroup", {"picouncil-vpc"}, {}),
  Res("picouncil-rds-sg", "aws:ec2:SecurityGroup", {"picouncil-vpc", "picouncil-ecs-sg"}, {})
>>

\* a plausible slip: the ECS group also admits the RDS group, which admits it
SecurityGroups_fargate_Cyclic == <<
  Res("picouncil-alb-sg", "aws:ec2:SecurityGroup", {"picouncil-vpc"}, {}),
  Res("picouncil-ecs-sg", "aws:ec2:SecurityGroup",
      {"picouncil-vpc", "picouncil-alb-sg", "picouncil-rds-sg"}, {}),
  Res("picouncil-rds-sg", "aws:ec2:SecurityGroup", {"picouncil-vpc", "picouncil-ecs-sg"}, {})
>>

\* a plausible slip: the RDS group is pasted from the ECS group and keeps its
\* logical name
SecurityGroups_fargate_SameName == <<
  Res("picouncil-alb-sg", "aws:ec2:SecurityGroup", {"picouncil-vpc"}, {}),
  Res("picouncil-ecs-sg", "aws:ec2:SecurityGroup", {"picouncil-vpc", "picouncil-alb-sg"}, {}),
  Res("picouncil-ecs-sg", "aws:ec2:SecurityGroup", {"picouncil-vpc", "picouncil-ecs-sg"}, {})
>>

\* albSecurityGroup, ecsSecurityGroup, rdsSecurityGroup
SecurityGroups_fargate == <<
  Res("picouncil-alb-sg", "aws:ec2:SecurityGroup", {"picouncil-vpc"}, {}),
  Res("picouncil-ecs-sg", "aws:ec2:SecurityGroup", {"picouncil-vpc", "picouncil-alb-sg"}, {}),
  Res("picouncil-rds-sg", "aws:ec2:SecurityGroup", {"picouncil-vpc", "picouncil-ecs-sg"}, {})
>>

\* the Fargate + ALB program, src/index.ts lines 427-1097
Program_fargate == <<
  Invoke("getCallerIdentityOutput", {}),
  Registry({"getCallerIdentityOutput"}),
  Git("serverCommit", "../picouncil-server"),
  Git("adminCommit", "../picouncil-admin"),
  Image("serverImage", "serverImage"),
  Image("adminImage", "adminImage"),
  Res("picouncil-vpc", "aws:ec2:Vpc", {}, {}),
  Res("picouncil-public-a", "aws:ec2:Subnet", {"picouncil-vpc"}, {}),
  Res("picouncil-public-b", "aws:ec2:Subnet", {"picouncil-vpc"}, {}),
  Res("picouncil-private-a", "aws:ec2:Subnet", {"picouncil-vpc"}, {}),
  Res("picouncil-private-b", "aws:ec2:Subnet", {"picouncil-vpc"}, {}),
  Res("picouncil-igw", "aws:ec2:InternetGateway", {"picouncil-vpc"}, {}),
  Res("picouncil-public-rt", "aws:ec2:RouteTable", {"picouncil-vpc", "picouncil-igw"}, {}),
  Res("picouncil-public-a-assoc", "aws:ec2:RouteTableAssociation",
      {"picouncil-public-a", "picouncil-public-rt"}, {}),
  Res("picouncil-public-b-assoc", "aws:ec2:RouteTableAssociation",
      {"picouncil-public-b", "picouncil-public-rt"}, {}),
  Res("picouncil-nat-eip", "aws:ec2:Eip", {}, {}),
  Res("picouncil-nat", "aws:ec2:NatGateway", {"picouncil-nat-eip", "picouncil-public-a"}, {}),
  Res("picouncil-private-rt", "aws:ec2:RouteTable", {"picouncil-vpc", "picouncil-nat"}, {}),
  Res("picouncil-private-a-assoc", "aws:ec2:RouteTableAssociation",
      {"picouncil-private-a", "picouncil-private-rt"}, {}),
  Res("picouncil-private-b-assoc", "aws:ec2:RouteTableAssociation",
      {"picouncil-private-b", "picouncil-private-rt"}, {})
  >> \o SecurityGroups_fargate \o <<
  Res("picouncil-db-subnet-group", "aws:rds:SubnetGroup",
      {"picouncil-private-a", "picouncil-private-b"}, {}),
  RequireSecret("dbPassword", "dbPassword"),
  Res("picouncil-db", "aws:rds:Instance",
      {"picouncil-db-subnet-group", "picouncil-rds-sg"}, {"dbPassword"}),
  Res("picouncil-server", "aws:ecr:Repository", {}, {}),
  Res("picouncil-server-lifecycle", "aws:ecr:LifecyclePolicy", {"picouncil-server"}, {}),
  Res("picouncil-admin", "aws:ecr:Repository", {}, {}),
  Res("picouncil-admin-lifecycle", "aws:ecr:LifecyclePolicy", {"picouncil-admin"}, {}),
  Res("picouncil-cluster", "aws:ecs:Cluster", {}, {}),
  Res("picouncil-task-execution-role", "aws:iam:Role", {}, {}),
  Res("picouncil-task-execution-policy", "aws:iam:RolePolicyAttachment",
      {"picouncil-task-execution-role"}, {}),
  Res("picouncil-task-role", "aws:iam:Role", {}, {}),
  Res("picouncil-task-ssm-policy", "aws:iam:RolePolicy", {"picouncil-task-role"}, {}),
  Res("picouncil-logs", "aws:cloudwatch:LogGroup", {}, {}),
  RequireSecret("jwtSecret", "jwtSecret"),
  Res("picouncil-jwt-secret", "aws:ssm:Parameter", {}, {"jwtSecret"}),
  Apply("picouncil-server-task.containerDefinitions",
        {"picouncil-db", "picouncil-logs", "picouncil-jwt-secret"},
        {"picouncil-db", "picouncil-logs"}),
  Res("picouncil-server-task", "aws:ecs:TaskDefinition",
      {"picouncil-task-execution-role", "picouncil-task-role",
       "picouncil-server-task.containerDefinitions"}, {}),
  Res("picouncil-alb", "aws:lb:LoadBalancer",
      {"picouncil-alb-sg", "picouncil-public-a", "picouncil-public-b"}, {}),
  Res("picouncil-tg", "aws:lb:TargetGroup", {"picouncil-vpc"}, {}),
  Res("picouncil-http-listener", "aws:lb:Listener", {"picouncil-alb"}, {}),
  Get("certificateArn", "certificateArn"),
  Res("picouncil-https-listener", "aws:lb:Listener", {"picouncil-alb", "picouncil-tg"}, {}),
  Res("picouncil-server-service", "aws:ecs:Service",
      {"picouncil-cluster", "picouncil-server-task", "picouncil-private-a",
       "picouncil-private-b", "picouncil-ecs-sg", "picouncil-tg"}, {}),
  Res("picouncil-admin-logs", "aws:cloudwatch:LogGroup", {}, {}),
  Apply("picouncil-admin-task.containerDefinitions",
        {"picouncil-admin-logs"}, {"picouncil-admin-logs"}),
  Res("picouncil-admin-task", "aws:ecs:TaskDefinition",
      {"picouncil-task-execution-role", "picouncil-task-role",
       "picouncil-admin-task.containerDefinitions"}, {}),
  Res("picouncil-admin-tg", "aws:lb:TargetGroup", {"picouncil-vpc"}, {}),
  Res("picouncil-admin-rule", "aws:lb:ListenerRule",
      {"picouncil-https-listener", "picouncil-admin-tg"}, {}),
  Res("picouncil-admin-service", "aws:ecs:Service",
      {"picouncil-cluster", "picouncil-admin-task", "picouncil-private-a",
       "picouncil-private-b", "picouncil-ecs-sg", "picouncil-admin-tg"}, {}),
  Res("picouncil-files", "aws:s3:BucketV2", {}, {}),
  Res("picouncil-files-versioning", "aws:s3:BucketVersioningV2", {"picouncil-files"}, {}),
  Res("picouncil-files-encryption", "aws:s3:BucketServerSideEncryptionConfigurationV2",
      {"picouncil-files"}, {}),
  Res("picouncil-files-public-access", "aws:s3:BucketPublicAccessBlock",
      {"picouncil-files"}, {}),
  Export({"picouncil-vpc", "picouncil-alb", "picouncil-server", "picouncil-admin",
          "picouncil-db", "picouncil-files", "picouncil-cluster"})
>>

Variants == {"ec2", "fargate"}

Program(v) == IF v = "ec2" THEN Program_ec2 ELSE Program_fargate

\* the names a program gives to resources and value cells
IsNode(st) == st.op \in {"resource", "invoke", "apply"}
NodeIndexes(prog) == {i \in DOMAIN prog : IsNode(prog[i])}
NodeTable(prog) ==
  [n \in {prog[i].name : i \in NodeIndexes(prog)} |->
     prog[CHOOSE i \in NodeIndexes(prog) : prog[i].name = n]]

NodeTable_ec2 == NodeTable(Program_ec2)
NodeTable_fargate == NodeTable(Program_fargate)

\* the statement that declares node n
NodeOf(v, n) == IF v = "ec2" THEN NodeTable_ec2[n] ELSE NodeTable_fargate[n]
NodeNames(v) == IF v = "ec2" THEN DOMAIN NodeTable_ec2 ELSE DOMAIN NodeTable_fargate

(* --------------------------- image tag strategy ----------------------- *)
ProjectLookup(call, path, o) == [call |-> call, path |-> path, ok |-> o.ok, hash |-> o.hash]

\* a getGitCommit whose catch block is missing: the failure escapes the call
getGitCommit_ec2_NoCatch(call, path, proj) ==
  [thrown |-> ~proj.ok,
   value |-> IF proj.ok THEN Trim(proj.out) ELSE <<>>,
   attempts |-> <<ProjectLookup(call, path, proj)>>]

\* getGitCommit of the EC2 program: one lookup, 'latest' when it throws.
\* The result names whether the call threw, the value it returned and the
\* lookups it made, in order.
getGitCommit_ec2(call, path, proj) ==
  [thrown |-> FALSE,
   value |-> IF proj.ok THEN Trim(proj.out) ELSE Latest,
   attempts |-> <<ProjectLookup(call, path, proj)>>]

\* a getGitCommit whose inner try is missing: the second failure escapes
getGitCommit_fargate_NoInnerCatch(call, path, proj, cwd) ==
  [thrown |-> ~proj.ok /\ ~cwd.ok,
   value |-> IF proj.ok THEN Trim(proj.out)
             ELSE IF cwd.ok THEN Trim(cwd.out) ELSE <<>>,
   attempts |-> IF proj.ok THEN <<ProjectLookup(call, path, proj)>>
                ELSE <<ProjectLookup(call, path, proj), ProjectLookup(call, ".", cwd)>>]

\* a getGitCommit that tries the project path a second time before it moves
\* on to the current directory
getGitCommit_fargate_Retrying(call, path, proj, cwd) ==
  [thrown |-> FALSE,
   value |-> IF proj.ok THEN Trim(proj.out)
             ELSE IF cwd.ok THEN Trim(cwd.out) ELSE Latest,
   attempts |-> IF proj.ok THEN <<ProjectLookup(call, path, proj)>>
                ELSE <<ProjectLookup(call, path, proj), ProjectLookup(call, path, proj),
                       ProjectLookup(call, ".", cwd)>>]

\* getGitCommit of the Fargate program: the project path, then the current
\* directory, then 'latest'
getGitCommit_fargate(call, path, proj, cwd) ==
  [thrown |-> FALSE,
   value |-> IF proj.ok THEN Trim(proj.out)
             ELSE IF cwd.ok THEN Trim(cwd.out) ELSE Latest,
   attempts |-> IF proj.ok THEN <<ProjectLookup(call, path, proj)>>
                ELSE <<ProjectLookup(call, path, proj), ProjectLookup(call, ".", cwd)>>]

\* the repository and the commit variable of each image variable
ImageRepo(img) == IF img = "serverImage" THEN "picouncil-server" ELSE "picouncil-admin"
ImageCommit(img) == IF img = "serverImage" THEN "serverCommit" ELSE "adminCommit"

\* `${ECR_REGISTRY}/<repo>:${commit}`
DerivedImage(registry, repo, commit) == registry \o <<"/", repo, ":">> \o commit

\* an image expression that uses the override only when nothing was derived
ImageExpr_DerivedFirst(defined, override, registry, repo, commit) ==
  IF commit # <<>> THEN DerivedImage(registry, repo, commit) ELSE override

\* config.get(key) || `${ECR_REGISTRY}/<repo>:${commit}`: undefined and the
\* empty string are both falsy
ImageExpr(defined, override, registry, repo, commit) ==
  IF defined /\ override # <<>> THEN override
  ELSE DerivedImage(registry, repo, commit)

\* ECR_REGISTRY of the Fargate program: a template literal over an Output,
\* which stringifies the Output itself, not the account id it will hold
ECR_REGISTRY_fargate == <<OutputToStringMsg, EcrSuffix>>

(* ------------------------------- config -------------------------------- *)
ConfigKeys == {"cloudflareAccountId", "cloudflareZoneId", "cloudflareTunnelSecret",
               "database-url", "jwt-secret", "dbPassword", "jwtSecret",
               "serverImage", "adminImage", "instanceType", "certificateArn"}

SecretKeys == {"cloudflareTunnelSecret", "database-url", "jwt-secret",
               "dbPassword", "jwtSecret"}

ImageKeys == {"serverImage", "adminImage"}

SecretValues == {<<"secret-" \o ToString(i)>> : i \in 1..NumSecretValues}

\* the values a supplied key may hold
ConfigValues(key) ==
  IF key \in SecretKeys THEN SecretValues
  ELSE IF key \in ImageKeys THEN {<<>>, <<"registry.example/override:v1">>}
  ELSE {<<key \o "-value">>}

\* the default of an optional key
ConfigDefault(key) == IF key = "instanceType" THEN <<"t4g.nano">> ELSE <<>>

EnvVars == {"ECR_REGISTRY", "serverCommit", "adminCommit", "serverImage",
            "adminImage", "instanceType", "certificateArn"}

(* ------------------------ callbacks (apply / then) --------------------- *)
\* what Output<T>.toJSON() returns when it does not throw
OutputToJSONMsg == "Calling [toJSON] on an [Output<T>] is not supported."

EnvPair(n, v) == [name |-> n, value |-> v]
SecretRef(n, from) == [name |-> n, valueFrom |-> from]

\* containerDefinitions of picouncil-server-task, EC2 program
ContainerDefinitions_ec2(image, logGroupName) ==
  [name |-> "picouncil-server",
   image |-> image,
   environment |-> {EnvPair("PORT", <<"8080">>),
                    EnvPair("ENVIRONMENT", <<"production">>),
                    EnvPair("FRONTEND_URL", <<"https://" \o DOMAIN_NAME>>)},
   secrets |-> {SecretRef("DATABASE_URL", <<"/picouncil/", "DATABASE_URL">>),
                SecretRef("JWT_SECRET", <<"/picouncil/", "JWT_SECRET">>)},
   awslogsGroup |-> logGroupName]

\* containerDefinitions of picouncil-server-task, Fargate program.  dbPassword
\* and jwtSecretParam.arn are Outputs used inside the callback: the template
\* literal and JSON.stringify render the Output object, not its value.
ContainerDefinitions_fargate(image, dbEndpoint, logGroupName) ==
  [name |-> "picouncil-server",
   image |-> image,
   environment |-> {EnvPair("PORT", <<"8080">>),
                    EnvPair("ENVIRONMENT", <<"production">>),
                    EnvPair("DATABASE_URL",
                            <<"postgres://picouncil:", OutputToStringMsg, "@">>
                              \o dbEndpoint \o <<"/picouncil?sslmode=require">>),
                    EnvPair("FRONTEND_URL", <<"https://" \o DOMAIN_NAME>>)},
   secrets |-> {SecretRef("JWT_SECRET", <<OutputToJSONMsg>>)},
   awslogsGroup |-> logGroupName]

\* containerDefinitions of picouncil-admin-task
ContainerDefinitions_admin(image, logGroupName) ==
  [name |-> "picouncil-admin",
   image |-> image,
   environment |-> {EnvPair("NODE_ENV", <<"production">>),
                    EnvPair("NEXT_PUBLIC_API_URL", <<"https://api." \o DOMAIN_NAME>>),
                    EnvPair("NEXT_PUBLIC_SITE_URL", <<"https://admin." \o DOMAIN_NAME>>)},
   secrets |-> {},
   awslogsGroup |-> logGroupName]

EcsClusterLine == "echo ECS_CLUSTER="
TokenLine == "ExecStart=/usr/local/bin/cloudflared tunnel --no-autoupdate run --token "

\* the startup script before it is encoded
UserDataScript(clusterName, token) ==
  <<"#!/bin/bash", EcsClusterLine>> \o clusterName \o
  <<" >> /etc/ecs/ecs.config", "install cloudflared",
    "cat > /etc/systemd/system/cloudflared.service << EOF",
    "[Unit]", "[Service]", TokenLine>> \o token \o
  <<"Restart=always", "[Install]", "EOF",
    "systemctl daemon-reload", "systemctl enable cloudflared",
    "systemctl start cloudflared">>

\* a userData that awaits the cluster name alone and renders the token Output
\* itself into the ExecStart line
UserData_TokenNotAwaited(clusterName, token) ==
  Base64(UserDataScript(clusterName, <<OutputToStringMsg>>))

\* userData: the script, base64-encoded
UserData(clusterName, token) == Base64(UserDataScript(clusterName, token))

\* the head of every SSM ARN of the region; the account id follows it
SsmArnPrefix == "arn:aws:ssm:" \o AWS_REGION \o ":"

SsmReadActions == {"ssm:GetParameters", "ssm:GetParameter"}

\* the policy document of picouncil-task-execution-ssm (EC2 program): the
\* actions it allows and the resource pattern, path segment by path segment
SsmPolicy(accountId) ==
  [actions |-> SsmReadActions,
   resource |-> <<SsmArnPrefix>> \o accountId \o <<":parameter", "/picouncil/", "*">>]

\* the policy document of picouncil-task-ssm-policy (Fargate program)
SsmPolicy_fargate ==
  [actions |-> SsmReadActions,
   resource |-> <<SsmArnPrefix, "*", ":parameter", "/picouncil/", "*">>]

\* the `name` property of each SSM parameter resource
ParameterName(p) ==
  CASE p = "picouncil-DATABASE_URL" -> <<"/picouncil/", "DATABASE_URL">>
    [] p = "picouncil-JWT_SECRET" -> <<"/picouncil/", "JWT_SECRET">>
    [] p = "picouncil-jwt-secret" -> <<"/picouncil/", "jwt-secret">>

\* the ARN of an SSM parameter resource in the caller's account
ParameterArn(accountId, p) ==
  <<SsmArnPrefix>> \o accountId \o <<":parameter">> \o ParameterName(p)

\* pulumi.interpolate`${apiTunnel.id}.cfargotunnel.com`
ApiDnsContent(tunnelId) == tunnelId \o <<".cfargotunnel.com">>

(* ------------------------------ the engine ----------------------------- *)
AccountIds == {"066047414165"}

Tokens == {<<"token-" \o ToString(i)>> : i \in 1..NumTokens}

\* the values the engine may return for the awaited output of a resource or
\* for a data-source call
EngineOutputs(n) ==
  CASE n = "tunnelToken" -> Tokens
    [] n \in {"awsAccountId", "getCallerIdentityOutput"} -> {<<a>> : a \in AccountIds}
    [] n = "ecsAmi" -> {<<"ami-ecs-optimized-arm64">>}
    [] n = "picouncil-api-tunnel" -> {<<"tunnel-id">>}
    [] n = "picouncil-cluster" -> {<<"picouncil-cluster">>}
    [] n = "picouncil-logs" -> {<<"/ecs/picouncil-server">>}
    [] n = "picouncil-admin-logs" -> {<<"/ecs/picouncil-admin">>}
    [] n = "picouncil-db" -> {<<"picouncil-db.rds.amazonaws.com:5432">>}
    [] OTHER -> {<<n>>}

CellsOf(table) == {n \in DOMAIN table : table[n].op \in {"invoke", "apply"}}

\* the nodes whose resolution the model follows: every value cell, every
\* resource a value cell waits for and every resource that joins two or more
\* value cells (the instance, which takes ecsAmi and userData)
TrackedOf(table) ==
  CellsOf(table) \cup UNION {table[c].waits : c \in CellsOf(table)}
    \cup {n \in DOMAIN table : Cardinality(table[n].refs \cap CellsOf(table)) > 1}

Tracked_ec2 == TrackedOf(NodeTable_ec2)
Tracked_fargate == TrackedOf(NodeTable_fargate)
Tracked(v) == IF v = "ec2" THEN Tracked_ec2 ELSE Tracked_fargate

\* the nodes the engine can resolve at all: a node resolves once every output
\* it waits for has resolved, so these are the least set closed under it
RECURSIVE ResolveAll(_, _)
ResolveAll(table, done) ==
  LET ready == {n \in DOMAIN table \ done : table[n].waits \subseteq done}
  IN  IF ready = {} THEN done ELSE ResolveAll(table, done \cup ready)

Resolvable_ec2 == ResolveAll(NodeTable_ec2, {})
Resolvable_fargate == ResolveAll(NodeTable_fargate, {})
Resolvable(v) == IF v = "ec2" THEN Resolvable_ec2 ELSE Resolvable_fargate

\* the value a callback returns once the outputs it waits for have resolved
Callback(v, n, vals, e) ==
  CASE n = "picouncil-api-dns.content" -> ApiDnsContent(vals["picouncil-api-tunnel"])
    [] n = "picouncil-task-execution-ssm.policy" -> SsmPolicy(vals["awsAccountId"])
    [] n = "userData" -> UserData(vals["picouncil-cluster"], vals["tunnelToken"])
    [] n = "picouncil-server-task.containerDefinitions" /\ v = "ec2" ->
         ContainerDefinitions_ec2(e["serverImage"], vals["picouncil-logs"])
    [] n = "picouncil-server-task.containerDefinitions" /\ v = "fargate" ->
         ContainerDefinitions_fargate(e["serverImage"], vals["picouncil-db"],
                                      vals["picouncil-logs"])
    [] n = "picouncil-admin-task.containerDefinitions" ->
         ContainerDefinitions_admin(e["adminImage"], vals["picouncil-admin-logs"])

(* ------------------------------- state --------------------------------- *)
\*  variant            which of the two programs runs
\*  errorOutputString  whether stringifying an Output throws (the engine's
\*                     PULUMI_ERROR_OUTPUT_STRING setting)
\*  pc                 index of the next statement of the script
\*  status             "running", "aborted" (an exception left the script) or
\*                     "finished" (the script ran to its end)
\*  supplied, cfg      the config keys read so far that hold a value, and it
\*  missing            the config keys read so far that are undefined
\*  env                the script's string variables
\*  gitLog             the git lookups made, in order
\*  declared           the resources and value cells constructed, in order
\*  resolved, val      the tracked nodes the engine has resolved, and to what

Init ==
  /\ variant \in Variants
  /\ errorOutputString = FALSE
  /\ pc = 1
  /\ status = "running"
  /\ supplied = {}
  /\ missing = {}
  /\ cfg = [k \in ConfigKeys |-> <<>>]
  /\ env = [x \in EnvVars |-> <<>>]
  /\ gitLog = <<>>
  /\ declared = <<>>
  /\ resolved = {}
  /\ val = [n \in Tracked(variant) |-> <<>>]

Running == status = "running" /\ pc \in DOMAIN Program(variant)
Cur == Program(variant)[pc]

\* the script's last statement has run
Advance ==
  /\ pc' = pc + 1
  /\ status' = IF pc = Len(Program(variant)) THEN "finished" ELSE "running"

Throw == pc' = pc /\ status' = "aborted"

\* const ECR_REGISTRY = ...
EvalRegistry ==
  /\ Running /\ Cur.op = "registry"
  /\ IF variant = "ec2"
     THEN /\ env' = [env EXCEPT !["ECR_REGISTRY"] = ECR_REGISTRY_ec2]
          /\ Advance
          /\ UNCHANGED errorOutputString
     ELSE \E throws \in BOOLEAN :
            /\ errorOutputString' = throws
            /\ IF throws
               THEN Throw /\ UNCHANGED env
               ELSE /\ env' = [env EXCEPT !["ECR_REGISTRY"] = ECR_REGISTRY_fargate]
                    /\ Advance
  /\ UNCHANGED <<variant, supplied, missing, cfg, gitLog, declared, resolved, val>>

\* config.require / config.requireSecret with the key set
RequireOk ==
  /\ Running /\ Cur.op \in {"require", "requireSecret"}
  /\ \E value \in ConfigValues(Cur.key) :
       /\ supplied' = supplied \cup {Cur.key}
       /\ cfg' = [cfg EXCEPT ![Cur.key] = value]
  /\ Advance
  /\ UNCHANGED <<variant, errorOutputString, missing, env, gitLog, declared,
                 resolved, val>>

\* a lookup that tolerates the missing key (config.get / getSecret semantics)
RequireMissing_Tolerated ==
  /\ Running /\ Cur.op \in {"require", "requireSecret"}
  /\ missing' = missing \cup {Cur.key}
  /\ Advance
  /\ UNCHANGED <<variant, errorOutputString, supplied, cfg, env, gitLog, declared,
                 resolved, val>>

\* config.require / config.requireSecret with the key missing: it throws
RequireMissing ==
  /\ Running /\ Cur.op \in {"require", "requireSecret"}
  /\ missing' = missing \cup {Cur.key}
  /\ Throw
  /\ UNCHANGED <<variant, errorOutputString, supplied, cfg, env, gitLog, declared,
                 resolved, val>>

\* an optional lookup written as a required one: the missing key throws
ConfigGet_Required ==
  /\ Running /\ Cur.op = "get"
  /\ \/ /\ missing' = missing \cup {Cur.key}
        /\ UNCHANGED <<supplied, cfg, env>>
        /\ Throw
     \/ \E value \in ConfigValues(Cur.key) :
          /\ UNCHANGED missing
          /\ supplied' = supplied \cup {Cur.key}
          /\ cfg' = [cfg EXCEPT ![Cur.key] = value]
          /\ env' = [env EXCEPT ![Cur.name] =
                       IF value # <<>> THEN value ELSE ConfigDefault(Cur.key)]
          /\ Advance
  /\ UNCHANGED <<variant, errorOutputString, gitLog, declared, resolved, val>>

\* config.get(key) || default
ConfigGet ==
  /\ Running /\ Cur.op = "get"
  /\ \/ /\ missing' = missing \cup {Cur.key}
        /\ UNCHANGED <<supplied, cfg>>
        /\ env' = [env EXCEPT ![Cur.name] = ConfigDefault(Cur.key)]
     \/ \E value \in ConfigValues(Cur.key) :
          /\ UNCHANGED missing
          /\ supplied' = supplied \cup {Cur.key}
          /\ cfg' = [cfg EXCEPT ![Cur.key] = value]
          /\ env' = [env EXCEPT ![Cur.name] =
                       IF value # <<>> THEN value ELSE ConfigDefault(Cur.key)]
  /\ Advance
  /\ UNCHANGED <<variant, errorOutputString, gitLog, declared, resolved, val>>

\* const xCommit = getGitCommit(path)
GitStep ==
  /\ Running /\ Cur.op = "git"
  /\ \E proj \in LookupOutcomes, cwd \in LookupOutcomes :
       LET r == IF variant = "ec2"
                THEN getGitCommit_ec2(Cur.name, Cur.key, proj)
                ELSE getGitCommit_fargate(Cur.name, Cur.key, proj, cwd)
       IN  /\ gitLog' = gitLog \o r.attempts
           /\ IF r.thrown
              THEN Throw /\ UNCHANGED env
              ELSE Advance /\ env' = [env EXCEPT ![Cur.name] = r.value]
  /\ UNCHANGED <<variant, errorOutputString, supplied, missing, cfg, declared,
                 resolved, val>>

\* const xImage = config.get('xImage') || `${ECR_REGISTRY}/<repo>:${xCommit}`
ImageStep ==
  /\ Running /\ Cur.op = "image"
  /\ \E defined \in BOOLEAN :
       \E override \in (IF defined THEN ConfigValues(Cur.key) ELSE {<<>>}) :
         /\ supplied' = IF defined THEN supplied \cup {Cur.key} ELSE supplied
         /\ missing' = IF defined THEN missing ELSE missing \cup {Cur.key}
         /\ cfg' = [cfg EXCEPT ![Cur.key] = override]
         /\ env' = [env EXCEPT ![Cur.name] =
                      ImageExpr(defined, override, env["ECR_REGISTRY"],
                                ImageRepo(Cur.name), env[ImageCommit(Cur.name)])]
  /\ Advance
  /\ UNCHANGED <<variant, errorOutputString, gitLog, declared, resolved, val>>

\* new <Resource>(name, {...}), a data-source call, or an apply / then
Declare ==
  /\ Running /\ IsNode(Cur)
  /\ declared' = Append(declared, Cur.name)
  /\ Advance
  /\ UNCHANGED <<variant, errorOutputString, supplied, missing, cfg, env, gitLog,
                 resolved, val>>

\* export const ...
ExportStep ==
  /\ Running /\ Cur.op = "export"
  /\ Advance
  /\ UNCHANGED <<variant, errorOutputString, supplied, missing, cfg, env, gitLog, declared,
                 resolved, val>>

IsDeclared(n) == n \in Range(declared)

\* the engine resolves a resource's output or a data-source call
\* once the outputs it waits for have resolved; the inputs whose resolution
\* is not followed step by step are resolved if the engine can resolve them
Resolve ==
  /\ status = "finished"
  /\ \E n \in Tracked(variant) \ resolved :
       /\ IsDeclared(n)
       /\ NodeOf(variant, n).op \in {"resource", "invoke"}
       /\ NodeOf(variant, n).waits \cap Tracked(variant) \subseteq resolved
       /\ NodeOf(variant, n).waits \ Tracked(variant) \subseteq Resolvable(variant)
       /\ \E out \in EngineOutputs(n) : val' = [val EXCEPT ![n] = out]
       /\ resolved' = resolved \cup {n}
  /\ UNCHANGED <<variant, errorOutputString, pc, status, supplied, missing, cfg, env,
                 gitLog, declared>>

\* the engine runs a callback whose inputs have all resolved
RunCallback ==
  /\ status = "finished"
  /\ \E n \in Tracked(variant) \ resolved :
       /\ IsDeclared(n)
       /\ NodeOf(variant, n).op = "apply"
       /\ NodeOf(variant, n).waits \subseteq resolved
       /\ val' = [val EXCEPT ![n] = Callback(variant, n, val, env)]
       /\ resolved' = resolved \cup {n}
  /\ UNCHANGED <<variant, errorOutputString, pc, status, supplied, missing, cfg, env,
                 gitLog, declared>>

Next ==
  \/ EvalRegistry
  \/ RequireOk
  \/ RequireMissing
  \/ ConfigGet
  \/ GitStep
  \/ ImageStep
  \/ Declare
  \/ ExportStep
  \/ Resolve
  \/ RunCallback

Spec == Init /\ [][Next]_vars

\* the engine's scheduler: while an output can resolve or a callback has all
\* its inputs, the engine eventually takes one of those steps
FairSpec == Spec /\ WF_vars(Resolve \/ RunCallback)

(* ============================ properties =============================== *)
Halted == status \in {"aborted", "finished"}

\* the lookups one getGitCommit call made
AttemptsOf(call) == SelectSeq(gitLog, LAMBDA a : a.call = call)

CommitVars == {"serverCommit", "adminCommit"}

\* the calls of getGitCommit that have returned
Returned == {c \in CommitVars : AttemptsOf(c) # <<>> /\ env[c] # <<>>}

AllFailed(att) == \A i \in DOMAIN att : ~att[i].ok

\* C1: whenever the lookup for projectPath succeeds, getGitCommit returns
\* exactly the hash git printed, with the surrounding whitespace trimmed, and
\* when every lookup the call makes fails it returns the literal 'latest';
\* in both programs.  A call that made lookups has returned.
C1_CommitIsHashOrLatest ==
  \A c \in CommitVars :
    LET att == AttemptsOf(c)
    IN  att # <<>> =>
          /\ c \in Returned
          /\ att[1].ok => env[c] = att[1].hash
          /\ AllFailed(att) => env[c] = Latest

\* a Fargate build in which one call read the project checkout and the other
\* found no checkout at all
C1_Witness ==
  /\ variant = "fargate"
  /\ Returned = CommitVars
  /\ AttemptsOf("serverCommit")[1].ok
  /\ env["serverCommit"] = AttemptsOf("serverCommit")[1].hash
  /\ Len(AttemptsOf("adminCommit")) = 2
  /\ AllFailed(AttemptsOf("adminCommit"))
  /\ env["adminCommit"] = Latest

\* the container definitions that use an image variable
TaskCell(img) ==
  IF img = "serverImage" THEN "picouncil-server-task.containerDefinitions"
  ELSE "picouncil-admin-task.containerDefinitions"

\* the image variables whose container definitions have been rendered
RenderedImages == {img \in ImageKeys : TaskCell(img) \in resolved}

\* C2 as stated: whenever an override is supplied in config, whatever its
\* value, the image of the task definition is the override
C2_AnyOverrideWins ==
  \A img \in RenderedImages :
    img \in supplied => val[TaskCell(img)].image = cfg[img]

\* C2, amended: whenever a non-empty override is supplied in config, the image
\* of the task definition is the override, whatever the git lookups returned
C2_NonEmptyOverrideWins ==
  \A img \in RenderedImages :
    (img \in supplied /\ cfg[img] # <<>>) => val[TaskCell(img)].image = cfg[img]

\* both task definitions of a Fargate build rendered with overridden images
\* while git resolved a commit
C2_Witness ==
  /\ RenderedImages = ImageKeys
  /\ \A img \in ImageKeys : img \in supplied /\ cfg[img] # <<>>
                            /\ val[TaskCell(img)].image = cfg[img]
  /\ AttemptsOf("serverCommit")[1].ok

\* the secret names the claims recognise
RecognizedSecrets == SecretKeys

\* the declared SSM parameter resources
SsmParameters ==
  {n \in Range(declared) : NodeOf(variant, n).type = "aws:ssm:Parameter"}

\* the declared SSM parameter resources whose value is secret s
ParamsFor(s) == {n \in SsmParameters : s \in NodeOf(variant, n).secrets}

HasParam(s) == ParamsFor(s) # {}

\* the secrets a program stores in an SSM parameter, and those it requires
ParamSecrets(v) == IF v = "ec2" THEN {"database-url", "jwt-secret"} ELSE {"jwtSecret"}
RequiredSecrets(v) ==
  IF v = "ec2" THEN {"cloudflareTunnelSecret", "database-url", "jwt-secret"}
  ELSE {"dbPassword", "jwtSecret"}

\* C3 as stated: in a finished build every recognised secret has an SSM
\* parameter resource if and only if a value for it was supplied
C3_ParamIffSupplied ==
  status = "finished" =>
    \A s \in RecognizedSecrets : HasParam(s) <=> s \in supplied

\* C3, amended: every secret is required, so a finished build was supplied
\* every secret of its program and a build with a secret absent has aborted at
\* that lookup; a finished build holds exactly one SSM parameter resource for
\* each of database-url and jwt-secret (EC2) or jwtSecret (Fargate), a
\* parameter is only ever declared for a supplied secret, and dbPassword and
\* cloudflareTunnelSecret never get a parameter resource
C3_ParamsOfRequiredSecrets ==
  LET params == SsmParameters
      paramsFor(s) == {n \in params : s \in NodeOf(variant, n).secrets}
  IN  /\ \A s \in RecognizedSecrets : paramsFor(s) # {} => s \in supplied
      /\ \A s \in RecognizedSecrets \ ParamSecrets(variant) : paramsFor(s) = {}
      /\ status = "finished" =>
           /\ RequiredSecrets(variant) \subseteq supplied
           /\ \A s \in ParamSecrets(variant) : Cardinality(paramsFor(s)) = 1
      /\ \A s \in RecognizedSecrets \cap missing :
           status = "aborted" /\ Cur.key = s /\ paramsFor(s) = {}

\* a finished EC2 build: both parameters declared, the tunnel secret supplied
\* and without a parameter
C3_Witness ==
  /\ variant = "ec2" /\ status = "finished"
  /\ HasParam("database-url") /\ HasParam("jwt-secret")
  /\ "cloudflareTunnelSecret" \in supplied /\ ~HasParam("cloudflareTunnelSecret")

\* an EC2 build that aborted at a missing secret with no parameter declared
C3_WitnessAbort ==
  /\ variant = "ec2" /\ Halted /\ "jwt-secret" \in missing
  /\ "database-url" \in supplied /\ ~HasParam("database-url")

\* the texts a rendered container definition holds
ContainerTexts(cd) ==
  {cd.image, cd.awslogsGroup} \cup {e.value : e \in cd.environment}
    \cup {r.valueFrom : r \in cd.secrets}

ContainerCells == {"picouncil-server-task.containerDefinitions",
                   "picouncil-admin-task.containerDefinitions"}

\* C4: no secret value (dbPassword, database-url, the jwt secret, the tunnel
\* secret or the tunnel token) is part of the container definitions or of the
\* instance user data: no rendered container definition holds a supplied
\* secret value, and the user data rendered from any other tunnel token is
\* the user data of this build
C4_SecretsStayOutOfPropertyBags ==
  /\ \A c \in ContainerCells \cap resolved :
       \A s \in SecretKeys \cap supplied :
         \A t \in ContainerTexts(val[c]) : Range(cfg[s]) \cap Range(t) = {}
  /\ "userData" \in resolved =>
       \A token \in Tokens :
         Callback(variant, "userData", [val EXCEPT !["tunnelToken"] = token], env)
           = val["userData"]

\* the nodes whose outputs node n mentions
RefsOf(n) == NodeOf(variant, n).refs

\* the nodes reachable from a set of nodes along the references of a program
RECURSIVE ReachFrom(_, _, _)
ReachFrom(table, frontier, seen) ==
  IF frontier \subseteq seen THEN seen
  ELSE ReachFrom(table,
                 UNION {table[n].refs \cap DOMAIN table : n \in frontier \ seen},
                 seen \cup frontier)

\* everything each node of a program depends on, directly or transitively
DependsTable(table) ==
  [n \in DOMAIN table |-> ReachFrom(table, table[n].refs \cap DOMAIN table, {})]

DependsTable_ec2 == DependsTable(NodeTable_ec2)
DependsTable_fargate == DependsTable(NodeTable_fargate)

DependsOn(n) == IF variant = "ec2" THEN DependsTable_ec2[n] ELSE DependsTable_fargate[n]

\* C5: the reference graph over the declared resources and value cells is
\* acyclic in each program: no declared node depends, directly or
\* transitively, on itself
C5_ReferenceGraphAcyclic ==
  \A n \in Range(declared) : n \notin DependsOn(n)

\* all of the Fargate program is declared; the RDS security group depends on
\* the VPC also through the ECS and ALB groups
C5_Witness ==
  /\ variant = "fargate" /\ status = "finished"
  /\ Range(declared) = NodeNames("fargate")
  /\ "picouncil-ecs-sg" \in RefsOf("picouncil-rds-sg")
  /\ {"picouncil-ecs-sg", "picouncil-alb-sg", "picouncil-vpc"}
       \subseteq DependsOn("picouncil-rds-sg")

\* C6 (two builds on identical inputs emit identical declarations) compares
\* two runs.  Every operator above is a function of its inputs, so two runs
\* of the model on the same inputs agree by construction; C6 has no formula.

\* C7: a failing git lookup never leaves getGitCommit: no build aborts at a
\* getGitCommit call, a call whose lookups all failed has returned the
\* fallback 'latest', and whatever the lookups did, the script that runs to
\* its end has declared every resource and value cell of its program
C7_GitFailureNeverPropagates ==
  /\ status = "aborted" => Cur.op # "git"
  /\ \A c \in CommitVars :
       (AttemptsOf(c) # <<>> /\ AllFailed(AttemptsOf(c))) => env[c] = Latest
  /\ status = "finished" => Range(declared) = NodeNames(variant)

\* a Fargate build in which all four lookups failed and every resource was
\* declared
C7_Witness ==
  /\ variant = "fargate" /\ status = "finished"
  /\ Len(gitLog) = 4 /\ AllFailed(gitLog)
  /\ Range(declared) = NodeNames("fargate")
  /\ env["serverCommit"] = Latest /\ env["adminCommit"] = Latest

\* C8: declarations are constructed in dependency order: every declared node
\* is declared strictly after every node whose output it takes as an input
C8_DeclaredInDependencyOrder ==
  \A i \in DOMAIN declared :
    RefsOf(declared[i]) \subseteq {declared[j] : j \in 1..(i - 1)}

\* the admin service is declared, after the task definition, target group,
\* cluster, subnets and security group it is wired to
C8_Witness ==
  /\ variant = "fargate"
  /\ "picouncil-admin-service" \in Range(declared)
  /\ RefsOf("picouncil-admin-service") # {}
  /\ RefsOf("picouncil-admin-service") \subseteq Range(declared)

\* a required secret was looked up and is undefined
SecretUndefined == SecretKeys \cap missing # {}

\* the project checkout of the server resolved
CheckoutResolved == AttemptsOf("serverCommit") # <<>> /\ AttemptsOf("serverCommit")[1].ok

\* the rendered, decoded startup script holds the cloudflared token line
HasTokenBlock(userData) == Base64(<<TokenLine>>)[1] \in Range(userData)

ServerImageDerived ==
  env["serverImage"] =
    DerivedImage(env["ECR_REGISTRY"], "picouncil-server", AttemptsOf("serverCommit")[1].hash)

\* C9 as stated: with a resolvable project checkout and the secret value
\* undefined, the build completes with the image tag derived from git, zero
\* secret parameter resources, and a startup script rendered without the
\* tunnel-token block
C9_CompletesWithoutSecret ==
  (Halted /\ variant = "ec2" /\ CheckoutResolved /\ "serverImage" \notin supplied
     /\ SecretUndefined) =>
       /\ status = "finished"
       /\ ServerImageDerived
       /\ SsmParameters = {}
       /\ "userData" \in resolved /\ ~HasTokenBlock(val["userData"])

\* C9, amended: with a resolvable project checkout, no image override and a
\* secret value undefined, the build does not complete: it aborts at the
\* lookup of that secret with the image tag derived from git, zero secret
\* parameter resources declared and no startup script declared or rendered;
\* and every startup script that is rendered holds the tunnel-token line,
\* followed by the token the engine resolved
C9_AbortsWithoutSecret ==
  /\ (CheckoutResolved /\ "serverImage" \notin supplied /\ SecretUndefined) =>
       /\ status = "aborted" /\ Cur.key \in missing
       /\ ServerImageDerived
       /\ SsmParameters = {}
       /\ ~IsDeclared("userData") /\ "userData" \notin resolved
  /\ "userData" \in resolved =>
       /\ HasTokenBlock(val["userData"])
       /\ \E i \in DOMAIN val["userData"] :
            /\ val["userData"][i] = Base64(<<TokenLine>>)[1]
            /\ <<val["userData"][i + 1]>> = Base64(val["tunnelToken"])

\* an EC2 build that resolved its checkout and aborted at the undefined
\* database-url secret
C9_Witness ==
  /\ variant = "ec2" /\ CheckoutResolved /\ "serverImage" \notin supplied
  /\ Halted /\ "database-url" \in missing
  /\ ServerImageDerived /\ SsmParameters = {}

\* an EC2 build whose startup script was rendered
C9_WitnessRendered ==
  "userData" \in resolved /\ HasTokenBlock(val["userData"])

\* C10: with no override given, the image of each container definition is
\* '<registry>/<repository>:<tag>' where <tag> is exactly what getGitCommit
\* returned and <registry> is a concrete ECR registry host (an account id
\* followed by .dkr.ecr.<region>.amazonaws.com), and it is the value the
\* script resolved once for that image
C10_ImageIsRegistryRepoTag ==
  \A img \in RenderedImages :
    img \notin supplied =>
       /\ val[TaskCell(img)].image = env[img]
       /\ \E account \in AccountIds :
            env[img] = <<account, EcrSuffix, "/", ImageRepo(img), ":">>
                         \o env[ImageCommit(img)]

\* the checkout path each call of getGitCommit is given
ProjectPath(c) ==
  IF c = "serverCommit" THEN "../picouncil-server" ELSE "../picouncil-admin"

\* the most lookups one call of getGitCommit makes in each program
MaxLookups(v) == IF v = "ec2" THEN 1 ELSE 2

\* C11: the lookups of a getGitCommit call form an ordered chain with no
\* retries.  The project path is looked up first and once; in the Fargate
\* program the current directory is looked up only after the project path
\* failed, once, and always then; 'latest' is returned only after every
\* lookup failed.  In the EC2 program a call makes a single lookup and
\* returns 'latest' directly on its failure.
C11_LookupsAreOrderedChain ==
  \A c \in CommitVars :
    LET att == AttemptsOf(c)
    IN  att # <<>> =>
          /\ att[1].path = ProjectPath(c)
          /\ Len(att) <= MaxLookups(variant)
          /\ \A i \in 2..Len(att) : att[i].path = "." /\ ~att[i - 1].ok
          /\ (variant = "fargate" /\ ~att[1].ok) => Len(att) = 2
          /\ (Len(att) = 2 /\ att[2].ok) => env[c] = att[2].hash
          /\ env[c] = Latest <=> AllFailed(att)

\* a Fargate build whose server call fell through to the current directory
\* and whose admin call fell through to 'latest'
C11_Witness ==
  /\ variant = "fargate"
  /\ Len(AttemptsOf("serverCommit")) = 2
  /\ ~AttemptsOf("serverCommit")[1].ok /\ AttemptsOf("serverCommit")[2].ok
  /\ AttemptsOf("serverCommit")[2].path = "."
  /\ env["serverCommit"] = AttemptsOf("serverCommit")[2].hash
  /\ Len(AttemptsOf("adminCommit")) = 2 /\ AllFailed(AttemptsOf("adminCommit"))
  /\ env["adminCommit"] = Latest

\* the value of an environment variable of a rendered container definition
EnvValue(cd, name) == (CHOOSE e \in cd.environment : e.name = name).value

\* C12: the DATABASE_URL placed in the server container definition of the
\* Fargate program is composed from the resolved database endpoint and the
\* resolved secret password: when the connection string is built the endpoint
\* cell is resolved and the text holds the endpoint's value and the value of
\* the dbPassword secret
C12_DatabaseUrlFromResolvedCells ==
  (variant = "fargate" /\ "picouncil-server-task.containerDefinitions" \in resolved) =>
     /\ "picouncil-db" \in resolved
     /\ "dbPassword" \in supplied
     /\ EnvValue(val["picouncil-server-task.containerDefinitions"], "DATABASE_URL")
          = <<"postgres://picouncil:">> \o cfg["dbPassword"] \o <<"@">>
              \o val["picouncil-db"] \o <<"/picouncil?sslmode=require">>

\* the encoded startup script holds `line` directly followed by `text`
ScriptHas(userData, line, text) ==
  \E i \in DOMAIN userData :
    /\ userData[i] = Base64(<<line>>)[1]
    /\ i + Len(text) <= Len(userData)
    /\ SubSeq(userData, i + 1, i + Len(text)) = Base64(text)

\* C13: the user data of the EC2 instance is derived only after both the ECS
\* cluster name and the tunnel token have resolved, the rendered script holds
\* the resolved cluster name in its ECS_CLUSTER line and the resolved token in
\* its cloudflared ExecStart line, and the instance is given its user data
\* only once the user data is rendered
C13_UserDataFromResolvedInputs ==
  /\ "userData" \in resolved =>
       /\ {"picouncil-cluster", "tunnelToken"} \subseteq resolved
       /\ val["picouncil-cluster"] # <<>> /\ val["tunnelToken"] # <<>>
       /\ ScriptHas(val["userData"], EcsClusterLine, val["picouncil-cluster"])
       /\ ScriptHas(val["userData"], TokenLine, val["tunnelToken"])
  /\ (variant = "ec2" /\ "picouncil-ecs-instance" \in resolved) =>
       "userData" \in resolved

\* the engine has created the instance from a rendered startup script
C13_Witness ==
  /\ variant = "ec2"
  /\ "picouncil-ecs-instance" \in resolved
  /\ ScriptHas(val["userData"], EcsClusterLine, <<"picouncil-cluster">>)
  /\ \E token \in Tokens :
       val["tunnelToken"] = token /\ ScriptHas(val["userData"], TokenLine, token)

\* every followed node is resolved, so every value cell is derived and every
\* declaration that takes a value cell has it, and the resolution rule
\* reaches every declaration of the program
AllInputsResolved ==
  /\ Tracked(variant) \subseteq resolved
  /\ Resolvable(variant) = NodeNames(variant)

\* C14: if every output the engine supplies eventually resolves (fairness of
\* the engine's steps), then under any order of resolution, once the
\* script has run to its end every derived value cell and every declaration
\* eventually has all of its inputs resolved: the chain of data dependencies
\* never deadlocks
C14_DependenciesNeverDeadlock == (status = "finished") ~> AllInputsResolved

\* an EC2 build in which every followed output has resolved and the role
\* policy received the document derived from the caller identity
C14_Witness ==
  /\ variant = "ec2" /\ status = "finished"
  /\ resolved = Tracked("ec2")
  /\ val["picouncil-task-execution-ssm.policy"] = SsmPolicy(val["awsAccountId"])
  /\ val["awsAccountId"] # <<>>

\* an IAM resource pattern covers a text: segment by segment, '*' covers any
Covers(pattern, text) ==
  /\ Len(pattern) = Len(text)
  /\ \A i \in DOMAIN pattern : pattern[i] \in {"*", text[i]}

\* the role a task definition names as executionRoleArn: ECS fetches the
\* container secrets with it when the task starts
ExecutionRole == "picouncil-task-execution-role"

\* the declared inline role policies, the role each is attached to and its
\* policy document
RolePolicies ==
  {n \in Range(declared) : NodeOf(variant, n).type = "aws:iam:RolePolicy"}
PolicyRole(pol) ==
  CHOOSE r \in NodeOf(variant, pol).refs : NodeOf(variant, r).type = "aws:iam:Role"
PolicyDocument(pol) ==
  IF variant = "ec2" THEN val["picouncil-task-execution-ssm.policy"]
  ELSE SsmPolicy_fargate

\* parameter p can be fetched through the execution role
ExecutionRoleCanRead(account, p) ==
  \E pol \in RolePolicies :
    /\ PolicyRole(pol) = ExecutionRole
    /\ "ssm:GetParameters" \in PolicyDocument(pol).actions
    /\ Covers(PolicyDocument(pol).resource, ParameterArn(account, p))

\* the secret reference names a declared parameter by its name or its ARN
NamesDeclaredParameter(ref, account, p) ==
  /\ p \in SsmParameters
  /\ ref.valueFrom \in {ParameterName(p), ParameterArn(account, p)}

\* C15: in a build whose outputs have all resolved, every secret a container
\* definition references by parameter address names an SSM parameter declared
\* in the same build by exactly its name or ARN, and the task execution role
\* carries a policy that allows ssm:GetParameters on that parameter
C15_ReferencedSecretsAreReadable ==
  (status = "finished" /\ Tracked(variant) \subseteq resolved) =>
    \A c \in ContainerCells \cap resolved :
      \A ref \in val[c].secrets :
        \E a \in AccountIds, p \in SsmParameters :
          /\ NamesDeclaredParameter(ref, <<a>>, p)
          /\ ExecutionRoleCanRead(<<a>>, p)

\* the keys read with config.require / requireSecret, and with config.get
RequiredKeys == {"cloudflareAccountId", "cloudflareZoneId", "cloudflareTunnelSecret",
                 "database-url", "jwt-secret", "dbPassword", "jwtSecret"}
OptionalKeys == {"serverImage", "adminImage", "instanceType", "certificateArn"}

\* the build was aborted by the lookup of a required key
AbortedAtLookup ==
  status = "aborted" /\ Cur.op \in {"require", "requireSecret"}

\* the declarations of the program that textually precede statement k
DeclarationsBefore(k) ==
  {Program(variant)[i].name : i \in {j \in 1..(k - 1) : IsNode(Program(variant)[j])}}

\* the value an optional key's variable takes when the key is not set
FallbackOf(k) ==
  IF k \in ImageKeys
  THEN DerivedImage(env["ECR_REGISTRY"], ImageRepo(k), env[ImageCommit(k)])
  ELSE IF k = "instanceType" THEN <<"t4g.nano">> ELSE <<>>

\* C16: a required config key that is looked up and missing aborts the build
\* at that lookup; the aborted build has emitted exactly the declarations that
\* textually precede the lookup, so none that follows it and all that come
\* before it; an optional key that is missing never aborts the build and its
\* variable holds the default
C16_MissingKeyAbortsAtLookup ==
  /\ \A k \in RequiredKeys \cap missing : AbortedAtLookup /\ Cur.key = k
  /\ AbortedAtLookup =>
       /\ Cur.key \in RequiredKeys \cap missing
       /\ Range(declared) = DeclarationsBefore(pc)
  /\ \A k \in OptionalKeys \cap missing :
       /\ ~(status = "aborted" /\ Cur.key = k)
       /\ env[k] = FallbackOf(k)

\* an EC2 build that left its image to the default and aborted at the tunnel
\* secret, after the bucket and DNS declarations and before the tunnel
C16_Witness ==
  /\ variant = "ec2" /\ AbortedAtLookup /\ Cur.key = "cloudflareTunnelSecret"
  /\ "serverImage" \in missing /\ env["serverImage"] = FallbackOf("serverImage")
  /\ "picouncil-images" \in Range(declared) /\ "picouncil-admin-dns" \in Range(declared)
  /\ "picouncil-api-tunnel" \notin Range(declared)

\* a Fargate build that ran to its end with every optional key missing
C16_WitnessOptional ==
  /\ variant = "fargate" /\ status = "finished"
  /\ {"serverImage", "adminImage", "certificateArn"} \subseteq missing
  /\ env["certificateArn"] = <<>>

\* the resource declarations the script has made before statement k
ResourcesBefore(k) == {i \in 1..(k - 1) : Program(variant)[i].op = "resource"}

\* the identity of a declaration in the graph handed to the engine
Identity(st) == <<st.type, st.name>>

\* C17: within each program no two declarations of the same resource type
\* share a logical name: the declarations made so far have as many distinct
\* (type, name) identities as there are declarations
C17_LogicalNamesUnique ==
  LET made == ResourcesBefore(pc)
  IN  Cardinality({Identity(Program(variant)[i]) : i \in made}) = Cardinality(made)

\* the whole Fargate program is declared, with both ECR repositories and all
\* four route table associations under names of their own
C17_Witness ==
  /\ variant = "fargate" /\ status = "finished"
  /\ ResourcesBefore(pc) # {} /\ Range(declared) = NodeNames("fargate")
  /\ Cardinality({n \in Range(declared) :
                    NodeOf(variant, n).type = "aws:ec2:RouteTableAssociation"}) = 4
  /\ Cardinality({n \in Range(declared) :
                    NodeOf(variant, n).type = "aws:ecr:Repository"}) = 2

====
